---- MODULE Spec2Model ----
(***************************************************************************)
(* Model of package vm (src/unnamed/part_000): the Devbox virtual machine  *)
(* controller.  A VM object is started and stopped against a host data     *)
(* directory; Start negotiates CPU / memory against the host bounds and    *)
(* the persisted scalar files, persists a machine identifier, attaches the *)
(* devices and starts the engine; Stop races a background stop task        *)
(* against the caller's context.                                           *)
(*                                                                         *)
(* Paths are sequences of components (the empty sequence is Go's "").      *)
(* File contents and identifiers are sequences of byte values.             *)
(* Memory sizes are bytes; disk sizes are MiB (2^32 bytes does not fit the *)
(* integers of TLC).                                                      *)
(***************************************************************************)
EXTENDS Integers, Sequences, FiniteSets, TLC

VARIABLES
    vm,        \* the VM object's fields
    fs,        \* the file system: directory path -> files
    ntemp,     \* number of temporary directories os.MkdirTemp has created
    host,      \* the engine's host capability bounds
    last,      \* observation of the most recent Start call
    engine,    \* calls received by the engine instance
    caller,    \* the goroutine calling Stop
    tasks,     \* the background goroutines spawned by Stop
    hist       \* what the owner of the VM object has done so far

vars == <<vm, fs, ntemp, host, last, engine, caller, tasks, hist>>

----------------------------------------------------------------------------
(* Bounds of the model *)

MaxLevel == 2        \* host bounds range over the size levels 1..MaxLevel
MaxIdLen == 2        \* length of a generated machine identifier
MaxCalls == 3        \* Start and Stop calls on one VM object
MaxShared == 1       \* caller-supplied shared directories
MaxTemps == 2        \* temporary directories before new runs stop using them

(* Program constants *)

DefaultCPUs == 1
DefaultMemory == 2^30
DefaultDisk == 2^12

MemStep == 2^27

----------------------------------------------------------------------------
(* Values *)

NULL == "nil"
EmptyPath == << >>
DataDir == <<"data">>
TempDir(n) == <<"devboxvm-", n>>
Join(dir, name) == dir \o <<name>>

NoFile == [exists |-> FALSE, data |-> << >>]
File(d) == [exists |-> TRUE, data |-> d]
NoDisk == [exists |-> FALSE, size |-> 0]

EmptyDir == [cpu |-> NoFile, mem |-> NoFile, id |-> NoFile,
             disk |-> NoDisk, log |-> FALSE, init |-> FALSE, boot |-> FALSE]

NoConfig == [set |-> FALSE, cpus |-> 0, memory |-> 0, disks |-> << >>,
             shares |-> << >>, platform |-> << >>]

\* the zero value of type VM
ZeroVM ==
    [ID |-> << >>, CPUs |-> 0, Memory |-> 0, DiskSize |-> 0,
     OS |-> "", Arch |-> "", Install |-> FALSE,
     SharedDirectories |-> << >>, HostDataDir |-> EmptyPath,
     Logger |-> NULL, vzvm |-> NULL, config |-> NoConfig,
     files |-> [path |-> EmptyPath, isTemp |-> FALSE]]

\* the engine instance behind vm.vzvm and the calls it has received
NoEngine == [state |-> "none", requestStops |-> 0, forcedStops |-> 0]
NewEngine == [state |-> "created", requestStops |-> 0, forcedStops |-> 0]

----------------------------------------------------------------------------
(* fmt: the "%v" verb, printing and scanning *)

RECURSIVE Digits(_)
Digits(n) ==
    IF n < 10 THEN <<48 + n>> ELSE Digits(n \div 10) \o <<48 + (n % 10)>>

\* Fprintf("%v", int): decimal, "-" for a negative value
FormatInt(n) == IF n < 0 THEN <<45>> \o Digits(0 - n) ELSE Digits(n)

RECURSIVE JoinBytes(_)
JoinBytes(b) ==
    IF b = << >> THEN << >>
    ELSE IF Len(b) = 1 THEN Digits(b[1])
    ELSE Digits(b[1]) \o <<32>> \o JoinBytes(Tail(b))

\* Fprintf("%v", []byte): "[" the bytes in decimal, space separated "]"
FormatBytes(b) == <<91>> \o JoinBytes(b) \o <<93>>

IsBlank(c) == c \in {32, 9, 13}
IsDigit(c) == c \in 48..57

RECURSIVE SkipSpace(_)
SkipSpace(s) ==
    IF s # << >> /\ IsBlank(Head(s)) THEN SkipSpace(Tail(s)) ELSE s

RECURSIVE TakeDigits(_)
TakeDigits(s) ==
    IF s # << >> /\ IsDigit(Head(s)) THEN <<Head(s)>> \o TakeDigits(Tail(s))
    ELSE << >>

RECURSIVE DigitsValue(_)
DigitsValue(d) ==
    IF d = << >> THEN 0
    ELSE 10 * DigitsValue(SubSeq(d, 1, Len(d) - 1)) + (d[Len(d)] - 48)

RECURSIVE TakeToken(_)
TakeToken(s) ==
    IF s # << >> /\ ~IsBlank(Head(s)) /\ Head(s) # 10
    THEN <<Head(s)>> \o TakeToken(Tail(s))
    ELSE << >>

\* a scan that stops after the first digit
ScanIntOneDigit(data, cur) ==
    LET s == SkipSpace(data)
    IN  IF s = << >> \/ ~IsDigit(Head(s))
        THEN [err |-> "expected integer", val |-> cur]
        ELSE [err |-> NULL, val |-> Head(s) - 48]

\* Fscanf(f, "%v", *int): skip blanks, optional sign, decimal digits.
\* cur is the value the pointer holds; it is kept when scanning fails.
ScanInt(data, cur) ==
    LET s == SkipSpace(data)
        signed == s # << >> /\ Head(s) \in {43, 45}
        body == IF signed THEN Tail(s) ELSE s
        ds == TakeDigits(body)
    IN  IF s = << >> THEN [err |-> "EOF", val |-> cur]
        ELSE IF Head(s) = 10 THEN [err |-> "unexpected newline", val |-> cur]
        ELSE IF ds = << >> THEN [err |-> "expected integer", val |-> cur]
        ELSE [err |-> NULL,
              val |-> IF signed /\ Head(s) = 45 THEN 0 - DigitsValue(ds)
                      ELSE DigitsValue(ds)]

\* Fscanf(f, "%v", *[]byte): skip blanks, then the bytes of the first
\* space-delimited token.
ScanBytes(data, cur) ==
    LET s == SkipSpace(data)
    IN  IF s = << >> THEN [err |-> "EOF", val |-> cur]
        ELSE IF Head(s) = 10 THEN [err |-> "unexpected newline", val |-> cur]
        ELSE [err |-> NULL, val |-> TakeToken(s)]

----------------------------------------------------------------------------
(* The data directory and the persisted scalars.  A step of Start works on *)
(* a record w holding the VM object, the file system and what the call has *)
(* done so far; env holds what the environment answers during the call.    *)
(* A helper whose last parameter is the result of a call made by the code  *)
(* is the code that follows that call.                                     *)

DirOf(path) == SubSeq(path, 1, Len(path) - 1)

\* os.MkdirTemp("", "devboxvm-")
MkdirTemp(w) ==
    [w EXCEPT !.ntemp = @ + 1,
              !.fs = (TempDir(w.ntemp + 1) :> EmptyDir) @@ @]

dataFilePath(w, name, env) ==
    IF w.vm.HostDataDir = EmptyPath
    THEN IF env.mkdirTemp
         THEN [w |-> [MkdirTemp(w) EXCEPT
                        !.vm.HostDataDir = TempDir(w.ntemp + 1)],
               path |-> Join(TempDir(w.ntemp + 1), name), err |-> NULL]
         ELSE [w |-> w, path |-> EmptyPath,
               err |-> "create temporary directory"]
    ELSE [w |-> w, path |-> Join(w.vm.HostDataDir, name), err |-> NULL]

\* fmt.Fscanf(f, "%v", value) on the content data
Fscanf(name, data, cur) ==
    IF name = "id" THEN ScanBytes(data, cur) ELSE ScanInt(data, cur)

\* lines 517-520: an unexpected EOF is no error
loadScanned(w, scan) ==
    IF scan.err = "unexpected EOF"
    THEN [w |-> w, err |-> NULL, val |-> scan.val]
    ELSE [w |-> w, err |-> scan.err, val |-> scan.val]

\* lines 504-516, p the result of dataFilePath
loadStateDataAt(p, name, cur, env) ==
    IF p.err # NULL THEN [w |-> p.w, err |-> p.err, val |-> cur]
    ELSE IF ~p.w.fs[DirOf(p.path)][name].exists
    THEN [w |-> p.w, err |-> NULL, val |-> cur]
    ELSE IF <<"open", name>> \in env.ioFail
    THEN [w |-> [p.w EXCEPT !.ioErrs = Append(@, <<"open", name>>)],
          err |-> "open", val |-> cur]
    ELSE loadScanned(p.w, Fscanf(name, p.w.fs[DirOf(p.path)][name].data, cur))

\* cur is the value behind the pointer; val is the value after the call
loadStateData(w, name, cur, env) ==
    loadStateDataAt(dataFilePath(w, name, env), name, cur, env)

\* fmt.Fprintf(f, "%v\n", value)
Fprintf(name, value) ==
    (IF name = "id" THEN FormatBytes(value) ELSE FormatInt(value)) \o <<10>>

\* lines 525-543, p the result of dataFilePath
saveStateDataAt(p, name, text, env) ==
    IF p.err # NULL THEN [w |-> p.w, err |-> p.err]
    ELSE IF <<"create", name>> \in env.ioFail
    THEN [w |-> [p.w EXCEPT !.ioErrs = Append(@, <<"create", name>>)],
          err |-> "open"]
    ELSE IF <<"write", name>> \in env.ioFail
    THEN [w |-> [p.w EXCEPT !.fs[DirOf(p.path)][name] = File(<< >>),
                            !.ioErrs = Append(@, <<"write", name>>)],
          err |-> "write"]
    ELSE [w |-> [p.w EXCEPT !.fs[DirOf(p.path)][name] = File(text),
                            !.writes = Append(@, <<name, text>>)],
          err |-> NULL]

saveStateData(w, name, value, env) ==
    saveStateDataAt(dataFilePath(w, name, env), name, Fprintf(name, value),
                    env)

----------------------------------------------------------------------------
(* Resource negotiation *)

\* a clamp that forgets the upper bound
clampNoMax(value, min, max) ==
    IF value < min THEN min ELSE value

clamp(value, min, max) ==
    IF value < min THEN min
    ELSE IF value > max THEN max
    ELSE value

\* vm.CPUs = value; vm.saveStateData("cpu", vm.CPUs)
setCPUs(w, value, env) ==
    saveStateData([w EXCEPT !.vm.CPUs = value], "cpu", value, env).w

\* line 177, ld the result of loadStateData
loadedCPUs(ld) == [ld.w EXCEPT !.vm.CPUs = ld.val]

\* a negotiation that persists the default only when clamping changed it
negotiateCPUsLazy(w, env) ==
    IF w.vm.CPUs = 0
    THEN IF DefaultCPUs # clamp(DefaultCPUs, w.host.minCPU, w.host.maxCPU)
         THEN setCPUs(w, clamp(DefaultCPUs, w.host.minCPU, w.host.maxCPU),
                      env)
         ELSE [w EXCEPT !.vm.CPUs = DefaultCPUs]
    ELSE IF w.vm.CPUs # clamp(w.vm.CPUs, w.host.minCPU, w.host.maxCPU)
    THEN setCPUs(w, clamp(w.vm.CPUs, w.host.minCPU, w.host.maxCPU), env)
    ELSE w

\* lines 178-188, after the load of line 177 if there was one
negotiateCPUs(w, env) ==
    IF w.vm.CPUs = 0
    THEN setCPUs(w, clamp(DefaultCPUs, w.host.minCPU, w.host.maxCPU), env)
    ELSE IF w.vm.CPUs # clamp(w.vm.CPUs, w.host.minCPU, w.host.maxCPU)
    THEN setCPUs(w, clamp(w.vm.CPUs, w.host.minCPU, w.host.maxCPU), env)
    ELSE w

configureCPUs(w, env) ==
    IF w.vm.CPUs = 0
    THEN negotiateCPUs(loadedCPUs(loadStateData(w, "cpu", w.vm.CPUs, env)),
                       env)
    ELSE negotiateCPUs(w, env)

setMemory(w, value, env) ==
    saveStateData([w EXCEPT !.vm.Memory = value], "mem", value, env).w

loadedMemory(ld) == [ld.w EXCEPT !.vm.Memory = ld.val]

\* lines 196-206, after the load of line 195 if there was one
negotiateMemory(w, env) ==
    IF w.vm.Memory = 0
    THEN setMemory(w, clamp(DefaultMemory, w.host.minMemory,
                            w.host.maxMemory), env)
    ELSE IF w.vm.Memory #
                clamp(w.vm.Memory, w.host.minMemory, w.host.maxMemory)
    THEN setMemory(w, clamp(w.vm.Memory, w.host.minMemory,
                            w.host.maxMemory), env)
    ELSE w

configureMemory(w, env) ==
    IF w.vm.Memory = 0
    THEN negotiateMemory(
             loadedMemory(loadStateData(w, "mem", w.vm.Memory, env)), env)
    ELSE negotiateMemory(w, env)

----------------------------------------------------------------------------
(* The steps of Start.  Each takes w and returns it with w.err set when    *)
(* the step fails.  env.failAt names the step at which the engine or the   *)
(* operating system answers with an error, if any.                         *)

fileBundle(w, env) ==
    IF w.vm.HostDataDir = EmptyPath
    THEN IF env.mkdirTemp
         THEN [MkdirTemp(w) EXCEPT
                 !.vm.files = [path |-> TempDir(w.ntemp + 1),
                               isTemp |-> TRUE]]
         ELSE [w EXCEPT !.vm.files = [path |-> EmptyPath, isTemp |-> FALSE],
                        !.err = "create directory for virtual machine data"]
    ELSE [w EXCEPT !.vm.files = [path |-> w.vm.HostDataDir, isTemp |-> FALSE]]

defaultOSArch(w) ==
    [w EXCEPT !.vm.OS = IF @ = "" THEN "linux" ELSE @,
              !.vm.Arch = IF @ = "" THEN "aarch64" ELSE @]

\* lines 568-589, p the result of dataFilePath
initLoggerAt(p, env) ==
    IF p.err # NULL
    THEN [p.w EXCEPT !.vm.Logger = "default"]
    ELSE IF <<"create", "log">> \in env.ioFail
    THEN [p.w EXCEPT !.vm.Logger = "default",
                     !.ioErrs = Append(@, <<"create", "log">>)]
    ELSE [p.w EXCEPT !.vm.Logger = "file", !.fs[DirOf(p.path)].log = TRUE]

initLogger(w, env) == initLoggerAt(dataFilePath(w, "log", env), env)

linuxBootLoader(w, env) ==
    IF env.failAt = "loader" THEN [w EXCEPT !.err = "create boot loader"]
    ELSE IF ~w.vm.Install /\ ~w.fs[w.vm.files.path].init
    THEN [w EXCEPT !.err = "create boot loader"]
    ELSE w

NewVirtualMachineConfiguration(w, env) ==
    IF env.failAt = "config"
    THEN [w EXCEPT !.vm.config = NoConfig,
                   !.err = "create virtual machine configuration"]
    ELSE [w EXCEPT !.vm.config =
                       [set |-> TRUE,
                        cpus |-> w.vm.CPUs, memory |-> w.vm.Memory,
                        disks |-> << >>, shares |-> << >>,
                        platform |-> << >>]]

attachConsole(w, env) ==
    IF env.failAt = "console" THEN [w EXCEPT !.err = "attach console"] ELSE w

\* lines 479-489: truncate the image this call created
truncateNew(w, dir, size) ==
    [w EXCEPT !.vm.DiskSize = size,
              !.fs[dir].disk = [exists |-> TRUE, size |-> size]]

\* lines 479-487 when f.Truncate fails: the image stays as created, empty
truncateFailed(w, dir, size) ==
    [w EXCEPT !.vm.DiskSize = size,
              !.fs[dir].disk = [exists |-> TRUE, size |-> 0],
              !.err = "create root disk"]

\* a root disk that is resized to the requested size on every call
rootDiskResize(p, env) ==
    IF p.err # NULL THEN [p.w EXCEPT !.err = "create root disk"]
    ELSE truncateNew(p.w, DirOf(p.path),
                     IF p.w.vm.DiskSize = 0 THEN DefaultDisk
                     ELSE p.w.vm.DiskSize)

\* lines 463-489, p the result of dataFilePath
rootDiskAt(p, env) ==
    IF p.err # NULL THEN [p.w EXCEPT !.err = "create root disk"]
    ELSE IF ~p.w.fs[DirOf(p.path)].disk.exists
    THEN IF env.failAt = "truncate"
         THEN truncateFailed(p.w, DirOf(p.path),
                             IF p.w.vm.DiskSize = 0 THEN DefaultDisk
                             ELSE p.w.vm.DiskSize)
         ELSE truncateNew(p.w, DirOf(p.path),
                          IF p.w.vm.DiskSize = 0 THEN DefaultDisk
                          ELSE p.w.vm.DiskSize)
    ELSE p.w

rootDisk(w, env) == rootDiskAt(dataFilePath(w, "disk.img", env), env)

\* lines 444-458, w the result of rootDisk
attachDisksWith(w, env) ==
    IF w.err # NULL THEN w
    ELSE IF env.failAt = "disks" THEN [w EXCEPT !.err = "attach disks"]
    ELSE [w EXCEPT !.vm.config.disks =
                       IF w.vm.Install THEN <<"root", "installer">>
                       ELSE <<"root">>]

attachDisks(w, env) == attachDisksWith(rootDisk(w, env), env)

attachNetwork(w, env) ==
    IF env.failAt = "network" THEN [w EXCEPT !.err = "attach network"] ELSE w

attachEntropy(w, env) ==
    IF env.failAt = "entropy" THEN [w EXCEPT !.err = "attach entropy"] ELSE w

\* the directory generateBootstrapScript returns
bootstrapDir(w) == Join(w.vm.files.path, "install")

\* lines 395-409, p the result of dataFilePath and dir the bootstrap
\* directory
appendImplicit(p, dir) ==
    IF p.err # NULL THEN [p.w EXCEPT !.err = "attach shared directories"]
    ELSE [p.w EXCEPT
            !.fs[DirOf(p.path)].boot = TRUE,
            !.vm.SharedDirectories =
                Append(Append(@, [Path |-> dir, ReadOnly |-> TRUE]),
                       [Path |-> p.path, ReadOnly |-> FALSE])]

\* lines 411-420
shareAll(w, env) ==
    IF w.err # NULL THEN w
    ELSE IF env.failAt = "shared"
    THEN [w EXCEPT !.err = "attach shared directories"]
    ELSE [w EXCEPT !.vm.config.shares = w.vm.SharedDirectories]

attachSharedDirs(w, env) ==
    IF w.vm.Install
    THEN shareAll(appendImplicit(dataFilePath(w, "boot", env),
                                 bootstrapDir(w)), env)
    ELSE shareAll(w, env)

\* lines 379-384
platformConfiguration(w, env) ==
    IF env.failAt = "platform"
    THEN [w EXCEPT !.err = "create platform configuration"]
    ELSE [w EXCEPT !.vm.config.platform = w.vm.ID]

\* lines 367-370, sv the result of saveStateData
savedIdentifier(sv, env) ==
    IF sv.err # NULL THEN [sv.w EXCEPT !.err = "save machine identifier"]
    ELSE platformConfiguration(sv.w, env)

\* lines 361-377, after the load of line 355
machineIdentifier(w, env) ==
    IF Len(w.vm.ID) = 0
    THEN IF env.failAt = "identifier"
         THEN [w EXCEPT !.err = "create machine identifier"]
         ELSE savedIdentifier(
                  saveStateData([w EXCEPT !.vm.ID = env.newID,
                                          !.generated = TRUE],
                                "id", env.newID, env), env)
    ELSE IF env.failAt = "identifier"
    THEN [w EXCEPT !.err = "load machine identifier"]
    ELSE platformConfiguration(w, env)

\* lines 355-358, ld the result of loadStateData
loadedIdentifier(ld, env) ==
    IF ld.err # NULL
    THEN [ld.w EXCEPT !.vm.ID = ld.val, !.err = "load machine identifier"]
    ELSE machineIdentifier([ld.w EXCEPT !.vm.ID = ld.val], env)

configureLinuxPlatform(w, env) ==
    loadedIdentifier(loadStateData(w, "id", w.vm.ID, env), env)

Validate(w, env) ==
    IF env.failAt \in {"validate", "invalid"}
    THEN [w EXCEPT !.err = "invalid configuration"]
    ELSE w

NewVirtualMachine(w, env) ==
    IF env.failAt = "instantiate"
    THEN [w EXCEPT !.vm.vzvm = NULL, !.err = "create virtual machine"]
    ELSE [w EXCEPT !.vm.vzvm = "vz", !.engine = NewEngine]

vzvmStart(w, env) ==
    IF env.failAt = "start"
    THEN [w EXCEPT !.engine.state = "error", !.err = "engine start"]
    ELSE [w EXCEPT !.engine.state = "running"]

StartSteps ==
    <<"fileBundle", "defaults", "initLogger", "configureCPUs",
      "configureMemory", "linuxBootLoader", "NewVirtualMachineConfiguration",
      "attachConsole", "attachDisks", "attachNetwork", "attachEntropy",
      "attachSharedDirs", "configureLinuxPlatform", "Validate",
      "NewVirtualMachine", "Start">>

RunStep(step, w, env) ==
    CASE step = "fileBundle" -> fileBundle(w, env)
      [] step = "defaults" -> defaultOSArch(w)
      [] step = "initLogger" -> initLogger(w, env)
      [] step = "configureCPUs" -> configureCPUs(w, env)
      [] step = "configureMemory" -> configureMemory(w, env)
      [] step = "linuxBootLoader" -> linuxBootLoader(w, env)
      [] step = "NewVirtualMachineConfiguration" ->
             NewVirtualMachineConfiguration(w, env)
      [] step = "attachConsole" -> attachConsole(w, env)
      [] step = "attachDisks" -> attachDisks(w, env)
      [] step = "attachNetwork" -> attachNetwork(w, env)
      [] step = "attachEntropy" -> attachEntropy(w, env)
      [] step = "attachSharedDirs" -> attachSharedDirs(w, env)
      [] step = "configureLinuxPlatform" -> configureLinuxPlatform(w, env)
      [] step = "Validate" -> Validate(w, env)
      [] step = "NewVirtualMachine" -> NewVirtualMachine(w, env)
      [] step = "Start" -> vzvmStart(w, env)

\* a Start that goes on after a failed attachment
RECURSIVE RunFromAll(_, _, _)
RunFromAll(i, w, env) ==
    IF i > Len(StartSteps) \/ (w.err # NULL /\ ~w.vm.config.set) THEN w
    ELSE RunFromAll(i + 1,
                    RunStep(StartSteps[i],
                            [w EXCEPT !.steps = Append(@, StartSteps[i])],
                            env),
                    env)

\* the body of VM.Start: the steps in order, returning at the first error
RECURSIVE RunFrom(_, _, _)
RunFrom(i, w, env) ==
    IF i > Len(StartSteps) \/ w.err # NULL THEN w
    ELSE RunFrom(i + 1,
                 RunStep(StartSteps[i],
                         [w EXCEPT !.steps = Append(@, StartSteps[i])], env),
                 env)

StartBody(h, v, e, env) ==
    RunFrom(1, [vm |-> v, fs |-> fs, ntemp |-> ntemp, engine |-> e,
                host |-> h, err |-> NULL, writes |-> << >>,
                generated |-> FALSE, steps |-> << >>, ioErrs |-> << >>],
            env)

----------------------------------------------------------------------------
(* VM.Start as one action: the caller serialises Start and Stop, and Start *)
(* has no internal concurrency.                                            *)

ScalarsOf(v) ==
    IF v.HostDataDir = EmptyPath
    THEN [cpu |-> NoFile, mem |-> NoFile, id |-> NoFile]
    ELSE [cpu |-> fs[v.HostDataDir].cpu, mem |-> fs[v.HostDataDir].mem,
          id |-> fs[v.HostDataDir].id]

NoPrev == [valid |-> FALSE, zero |-> FALSE, empty |-> FALSE,
           sameHost |-> FALSE, sameDir |-> FALSE, saved |-> << >>]

NoStart == [valid |-> FALSE, fresh |-> FALSE,
            req |-> [ID |-> << >>, CPUs |-> 0, Memory |-> 0],
            dir |-> EmptyPath,
            pre |-> [cpu |-> NoFile, mem |-> NoFile, id |-> NoFile],
            writes |-> << >>, generated |-> FALSE, newID |-> << >>,
            ret |-> NULL, steps |-> << >>, ioErrs |-> << >>,
            prev |-> NoPrev]

\* what the previous Start call looked like, as seen from the next one,
\* which runs on host h against directory dir
Summary(l, h, dir) ==
    [valid |-> l.valid,
     zero |-> l.req.CPUs = 0 /\ l.req.Memory = 0,
     empty |-> ~l.pre.cpu.exists /\ ~l.pre.mem.exists,
     sameHost |-> h = host, sameDir |-> l.dir = dir,
     saved |-> [i \in 1..Len(l.writes) |-> l.writes[i][1]]]

Observe(h, v, w, fresh, env) ==
    [valid |-> TRUE, fresh |-> fresh,
     req |-> [ID |-> v.ID, CPUs |-> v.CPUs, Memory |-> v.Memory],
     dir |-> w.vm.HostDataDir,
     pre |-> ScalarsOf(v), writes |-> w.writes,
     generated |-> w.generated, newID |-> env.newID,
     ret |-> w.err, steps |-> w.steps, ioErrs |-> w.ioErrs,
     prev |-> Summary(last, h, w.vm.HostDataDir)]

\* the caller of Stop: where it is, the channel it made, its context, what
\* the last Stop returned, whether the context was cancelled on entry,
\* whether a goroutine was spawned, and the phase the VM was in at the call
Idle == [pc |-> "idle", ch |-> 0, ctx |-> "live", ret |-> NULL,
         pre |-> FALSE, spawned |-> FALSE, phase |-> "unconfigured"]

\* the life of the VM object: its phase (unconfigured, running, failed,
\* stopping after a Stop that was cancelled, stopped), the calls made, and
\* the shared directories the caller supplied
NoHist == [phase |-> "unconfigured", starts |-> 0, stops |-> 0,
           shares |-> << >>]

\* Start has run on object v and left w
Started(h, v, fresh, env, w) ==
    /\ host' = h
    /\ vm' = w.vm
    /\ fs' = w.fs
    /\ ntemp' = w.ntemp
    /\ engine' = w.engine
    /\ last' = Observe(h, v, w, fresh, env)
    /\ hist' = [(IF fresh
                  THEN [NoHist EXCEPT !.shares = v.SharedDirectories]
                  ELSE hist) EXCEPT
                  !.phase = IF w.err = NULL THEN "running" ELSE "failed",
                  !.starts = @ + 1]

StartCall(h, v, fresh, env) ==
    Started(h, v, fresh, env,
            StartBody(h, v, IF fresh THEN NoEngine ELSE engine, env))

\* a new run of the program, on a host with bounds h: a VM object is built
\* with the caller's fields and started (no goroutine of an earlier run is
\* left)
StartNew(h, req, env) ==
    /\ caller.pc = "idle"
    /\ StartCall(h, [ZeroVM EXCEPT !.ID = req.ID, !.CPUs = req.CPUs,
                                !.Memory = req.Memory,
                                !.DiskSize = req.DiskSize,
                                !.Install = req.Install,
                                !.SharedDirectories = req.SharedDirectories,
                                !.HostDataDir = req.HostDataDir],
                 TRUE, env)
    /\ caller' = Idle
    /\ tasks' = << >>

\* Start is called on the VM object at hand, for the first time or again
\* after a failed Start or a Stop
StartObject(env) ==
    /\ caller.pc = "idle"
    /\ hist.phase # "running"
    /\ hist.starts + hist.stops < MaxCalls
    /\ StartCall(host, vm, FALSE, env)
    /\ UNCHANGED <<caller, tasks>>

----------------------------------------------------------------------------
(* VM.Stop: the caller spawns a goroutine that asks the engine to stop and *)
(* reports on an unbuffered channel, then selects on the context and the   *)
(* channel.  tasks[t] is the goroutine of channel t.                       *)

Returned(result) ==
    /\ caller' = [caller EXCEPT !.pc = "idle", !.ret = result]
    /\ hist' = [hist EXCEPT
                  !.stops = @ + 1,
                  !.phase = IF hist.phase = "running"
                            THEN (IF result = "ctx.Err" THEN "stopping"
                                  ELSE "stopped")
                            ELSE @]

\* a Stop without the nil check of line 147
StopNoNilCheck(cancelled) ==
    /\ caller.pc = "idle"
    /\ hist.starts + hist.stops < MaxCalls
    /\ tasks' = Append(tasks, [pc |-> "RequestStop", msg |-> NULL,
                               closed |-> FALSE, forced |-> FALSE,
                               phase |-> hist.phase])
    /\ caller' = [pc |-> "select", ch |-> Len(tasks) + 1,
                  ctx |-> IF cancelled THEN "cancelled" ELSE "live",
                  ret |-> NULL, pre |-> cancelled, spawned |-> TRUE,
                  phase |-> hist.phase]
    /\ UNCHANGED <<vm, fs, ntemp, host, last, engine, hist>>

\* lines 146-164: the nil check, make(chan error), the go statement
Stop(cancelled) ==
    /\ caller.pc = "idle"
    /\ hist.starts + hist.stops < MaxCalls
    /\ IF vm.vzvm = NULL
       THEN /\ caller' = [Idle EXCEPT !.ret = "nil", !.pre = cancelled,
                                      !.phase = hist.phase]
            /\ hist' = [hist EXCEPT !.stops = @ + 1]
            /\ UNCHANGED tasks
       ELSE /\ tasks' = Append(tasks, [pc |-> "RequestStop", msg |-> NULL,
                                       closed |-> FALSE, forced |-> FALSE,
                                       phase |-> hist.phase])
            /\ caller' = [pc |-> "select", ch |-> Len(tasks) + 1,
                          ctx |-> IF cancelled THEN "cancelled" ELSE "live",
                          ret |-> NULL, pre |-> cancelled, spawned |-> TRUE,
                          phase |-> hist.phase]
            /\ UNCHANGED hist
    /\ UNCHANGED <<vm, fs, ntemp, host, last, engine>>

\* the context is cancelled while Stop waits
Cancel ==
    /\ caller.pc = "select"
    /\ caller.ctx = "live"
    /\ caller' = [caller EXCEPT !.ctx = "cancelled"]
    /\ UNCHANGED <<vm, fs, ntemp, host, last, engine, tasks, hist>>

\* line 153: vm.vzvm.RequestStop() returns (ok, err)
TaskRequestStop(t, ok, err) ==
    /\ tasks[t].pc = "RequestStop"
    /\ IF vm.vzvm = NULL
       THEN /\ tasks' = [tasks EXCEPT ![t].pc = "panic"]
            /\ UNCHANGED engine
       ELSE /\ engine' = [engine EXCEPT !.requestStops = @ + 1]
            /\ tasks' = [tasks EXCEPT
                           ![t].pc = IF ~ok \/ err THEN "Stop" ELSE "close",
                           ![t].msg =
                               IF err THEN "could not shutdown gracefully"
                               ELSE IF ~ok
                               THEN "invalid machine state for stopping"
                               ELSE NULL]
    /\ UNCHANGED <<vm, fs, ntemp, host, last, caller, hist>>

\* a goroutine that reports the rejection without forcing the stop
TaskStopSkipped(t) ==
    /\ tasks[t].pc = "Stop"
    /\ tasks' = [tasks EXCEPT ![t].pc = "send"]
    /\ UNCHANGED <<vm, fs, ntemp, host, last, engine, caller, hist>>

\* line 155: vm.vzvm.Stop()
TaskStop(t) ==
    /\ tasks[t].pc = "Stop"
    /\ IF vm.vzvm = NULL
       THEN /\ tasks' = [tasks EXCEPT ![t].pc = "panic"]
            /\ UNCHANGED engine
       ELSE /\ engine' = [engine EXCEPT !.forcedStops = @ + 1,
                                        !.state = "stopped"]
            /\ tasks' = [tasks EXCEPT ![t].pc = "send", ![t].forced = TRUE]
    /\ UNCHANGED <<vm, fs, ntemp, host, last, caller, hist>>

\* line 163: close(ch)
TaskClose(t) ==
    /\ tasks[t].pc = "close"
    /\ tasks' = [tasks EXCEPT ![t].pc = "done", ![t].closed = TRUE]
    /\ UNCHANGED <<vm, fs, ntemp, host, last, engine, caller, hist>>

\* a select that takes the context case only once the goroutine is through
SelectDoneAfterTask ==
    /\ caller.pc = "select"
    /\ caller.ctx = "cancelled"
    /\ tasks[caller.ch].pc \in {"send", "done"}
    /\ Returned("ctx.Err")
    /\ UNCHANGED <<vm, fs, ntemp, host, last, engine, tasks>>

\* line 166: case <-ctx.Done()
SelectDone ==
    /\ caller.pc = "select"
    /\ caller.ctx = "cancelled"
    /\ Returned("ctx.Err")
    /\ UNCHANGED <<vm, fs, ntemp, host, last, engine, tasks>>

\* line 168: case err := <-ch, meeting the send of line 157 or 160, or
\* receiving the zero value from the closed channel
SelectRecv ==
    /\ caller.pc = "select"
    /\ \/ /\ tasks[caller.ch].pc = "send"
          /\ Returned(tasks[caller.ch].msg)
          /\ tasks' = [tasks EXCEPT ![caller.ch].pc = "done"]
       \/ /\ tasks[caller.ch].closed
          /\ Returned("nil")
          /\ UNCHANGED tasks
    /\ UNCHANGED <<vm, fs, ntemp, host, last, engine>>

----------------------------------------------------------------------------
(* Inputs *)

Levels == 1..MaxLevel

\* the size of level k: CPU count k, and a memory size around DefaultMemory
MemOf(k) == DefaultMemory + (2 * k - 3) * MemStep

Hosts ==
    {[minCPU |-> b[1], maxCPU |-> b[2],
      minMemory |-> MemOf(b[1]), maxMemory |-> MemOf(b[2])] :
        b \in {c \in Levels \X Levels : c[1] <= c[2]}}

\* the host with the widest bounds
TheHost == CHOOSE h \in Hosts : h.minCPU = 1 /\ h.maxCPU = MaxLevel

\* a request of level r: 0 is "unset", a negative level a negative size
SizeOf(r) ==
    [CPUs |-> r,
     Memory |-> IF r = 0 THEN 0 ELSE IF r < 0 THEN r * MemStep ELSE MemOf(r)]

Request(id, r) ==
    [ID |-> id, CPUs |-> SizeOf(r).CPUs, Memory |-> SizeOf(r).Memory,
     DiskSize |-> 0, Install |-> FALSE, SharedDirectories |-> << >>,
     HostDataDir |-> DataDir]

\* the identifiers the engine may generate
GenIDs == {[i \in 1..n |-> 6 + i] : n \in 1..MaxIdLen}

CallerShares ==
    {[i \in 1..n |-> [Path |-> <<"share", i>>, ReadOnly |-> (i % 2 = 0)]] :
        n \in 0..MaxShared}

Env(failAt, ioFail, newID) ==
    [failAt |-> failAt, mkdirTemp |-> TRUE, ioFail |-> ioFail,
     newID |-> newID]

\* a data directory as earlier runs left it: the guest image installed,
\* the scalars of level l persisted (none for level 0)
DirWith(l, idFile) ==
    [EmptyDir EXCEPT
       !.init = TRUE,
       !.cpu = IF l = 0 THEN NoFile ELSE File(FormatInt(l) \o <<10>>),
       !.mem = IF l = 0 THEN NoFile ELSE File(FormatInt(MemOf(l)) \o <<10>>),
       !.id = idFile]

InitWith(h, dir, v) ==
    /\ hist = [NoHist EXCEPT !.shares = v.SharedDirectories]
    /\ host = h
    /\ fs = (DataDir :> dir)
    /\ vm = v
    /\ ntemp = 0
    /\ last = NoStart
    /\ engine = NoEngine
    /\ caller = Idle
    /\ tasks = << >>

----------------------------------------------------------------------------
(* Spec: runs of the program against one data directory, each on a host   *)
(* whose bounds may differ from the last run's, building a VM object with  *)
(* requested sizes and starting it.                                        *)

SizeReqs == {Request(<< >>, r) : r \in (0 - 1)..(MaxLevel + 1)}

SizeEnvs ==
    {Env(f, {}, [i \in 1..MaxIdLen |-> 6 + i]) : f \in {"none", "start"}}

Init ==
    \E l \in 0..MaxLevel :
        InitWith(TheHost, DirWith(l, NoFile), ZeroVM)

Next ==
    \E h \in Hosts, r \in SizeReqs, e \in SizeEnvs : StartNew(h, r, e)

Spec == Init /\ [][Next]_vars

----------------------------------------------------------------------------
(* Claims about resource negotiation, checked under Spec *)

Wrote(l, name) == \E i \in 1..Len(l.writes) : l.writes[i][1] = name

\* the text saveStateData writes for an integer
Persisted(n) == FormatInt(n) \o <<10>>

InBounds(n, min, max) == min <= n /\ n <= max

\* every text written to the scalar file name is the decimal of v, a
\* value inside [min, max]
WritesInBounds(l, name, v, min, max) ==
    \A i \in 1..Len(l.writes) :
        l.writes[i][1] = name =>
            l.writes[i][2] = Persisted(v) /\ InBounds(v, min, max)

\* C5 (as claimed): a Start with CPUs = 0 (Memory = 0) ends with the CPU
\* count (memory size) the most recent earlier Start against the directory
\* ended with, clamped to the current host bounds.
C5_ReusesLastRun ==
    [][(last.valid /\ last'.dir = last.dir) =>
          /\ (last'.req.CPUs = 0 =>
                 vm'.CPUs = clamp(vm.CPUs, host'.minCPU, host'.maxCPU))
          /\ (last'.req.Memory = 0 =>
                 vm'.Memory =
                     clamp(vm.Memory, host'.minMemory, host'.maxMemory))]_vars

\* C6: after Start has negotiated, for every requested value, persisted
\* value and host bounds, vm.CPUs and vm.Memory lie inside the host bounds
\* and so does every value written to the cpu and mem scalar files.
C6_NegotiatedInBounds ==
    last.valid =>
        /\ InBounds(vm.CPUs, host.minCPU, host.maxCPU)
        /\ InBounds(vm.Memory, host.minMemory, host.maxMemory)
        /\ WritesInBounds(last, "cpu", vm.CPUs, host.minCPU, host.maxCPU)
        /\ WritesInBounds(last, "mem", vm.Memory,
                          host.minMemory, host.maxMemory)

C6_Witness ==
    /\ last.valid
    /\ last.req.CPUs > host.maxCPU /\ vm.CPUs = host.maxCPU
    /\ last.req.Memory > host.maxMemory /\ vm.Memory = host.maxMemory
    /\ Wrote(last, "cpu") /\ Wrote(last, "mem")

\* C7: a Start with CPUs = 0 (Memory = 0) on a directory without a cpu
\* (mem) file ends with clamp(DefaultCPUs) (clamp(DefaultMemory)) and has
\* written that value to the file, also when clamping left the default
\* unchanged.
C7_DefaultPersisted ==
    last.valid =>
        /\ (last.req.CPUs = 0 /\ ~last.pre.cpu.exists =>
               /\ vm.CPUs = clamp(DefaultCPUs, host.minCPU, host.maxCPU)
               /\ Wrote(last, "cpu")
               /\ fs[last.dir].cpu = File(Persisted(vm.CPUs)))
        /\ (last.req.Memory = 0 /\ ~last.pre.mem.exists =>
               /\ vm.Memory =
                      clamp(DefaultMemory, host.minMemory, host.maxMemory)
               /\ Wrote(last, "mem")
               /\ fs[last.dir].mem = File(Persisted(vm.Memory)))

C7_Witness ==
    /\ last.valid
    /\ last.req.CPUs = 0 /\ ~last.pre.cpu.exists
    /\ last.req.Memory = 0 /\ ~last.pre.mem.exists
    /\ vm.CPUs = DefaultCPUs /\ vm.Memory = DefaultMemory
    /\ fs[last.dir].cpu = File(Persisted(DefaultCPUs))
    /\ fs[last.dir].mem = File(Persisted(DefaultMemory))

\* the Start observed in last is the second of two Starts with CPUs = 0 and
\* Memory = 0 on the same directory and host, the first of which found no
\* cpu and mem file and persisted both
SecondZeroStart ==
    /\ last.valid /\ last.fresh
    /\ last.req.CPUs = 0 /\ last.req.Memory = 0
    /\ last.prev.valid /\ last.prev.zero /\ last.prev.empty
    /\ last.prev.sameHost /\ last.prev.sameDir
    /\ \E i \in 1..Len(last.prev.saved) : last.prev.saved[i] = "cpu"
    /\ \E i \in 1..Len(last.prev.saved) : last.prev.saved[i] = "mem"

\* C8: with unchanged host bounds, a second Start with CPUs = 0 and
\* Memory = 0 on a directory a first such Start populated ends with exactly
\* the persisted values and leaves the cpu and mem files as they were.
C8_SecondStartReuses ==
    SecondZeroStart =>
        /\ last.pre.cpu = File(Persisted(vm.CPUs))
        /\ last.pre.mem = File(Persisted(vm.Memory))
        /\ fs[last.dir].cpu = last.pre.cpu
        /\ fs[last.dir].mem = last.pre.mem
        /\ ~Wrote(last, "cpu") /\ ~Wrote(last, "mem")

C8_Witness ==
    /\ SecondZeroStart
    /\ vm.CPUs > DefaultCPUs
    /\ vm.Memory > DefaultMemory
    /\ fs[last.dir].mem = File(Persisted(vm.Memory))

----------------------------------------------------------------------------
(* SpecId: runs of the program against one data directory on one host,     *)
(* each building a VM object, with or without an identifier of the         *)
(* caller's, and starting it.                                              *)

IdFiles == {NoFile} \cup {File(FormatBytes(id) \o <<10>>) : id \in GenIDs}

IdReqs == {Request(id, r) : id \in {<< >>} \cup GenIDs, r \in {0, MaxLevel}}

IdEnvs == {Env(f, {}, id) : f \in {"none", "identifier"}, id \in GenIDs}

InitId ==
    \E f \in IdFiles, l \in {0, 1} : InitWith(TheHost, DirWith(l, f), ZeroVM)

NextId ==
    \E r \in IdReqs, e \in IdEnvs : StartNew(TheHost, r, e)

SpecId == InitId /\ [][NextId]_vars

----------------------------------------------------------------------------
(* Claims about the machine identifier, checked under SpecId *)

Ran(l, step) == \E i \in 1..Len(l.steps) : l.steps[i] = step

\* C9 (as claimed): once a Start has generated an identifier and saved it
\* to the id file of a directory, the next Start against that directory
\* loads exactly the generated bytes, and generates and writes none.
C9_IdentityStable ==
    [][(/\ last.generated /\ Wrote(last, "id")
        /\ last'.dir = last.dir
        /\ Ran(last', "configureLinuxPlatform")) =>
          /\ vm'.ID = last.newID
          /\ ~last'.generated
          /\ ~Wrote(last', "id")]_vars

\* C10 (as claimed): a Start whose caller set ID, CPUs or Memory on a
\* directory that holds a persisted value for it uses the caller's value,
\* clamped to the host bounds for CPUs and Memory, not the persisted one.
C10_CallerOverrides ==
    (last.valid /\ Ran(last, "configureLinuxPlatform")) =>
        /\ (last.req.ID # << >> /\ last.pre.id.exists =>
               vm.ID = last.req.ID)
        /\ (last.req.CPUs # 0 /\ last.pre.cpu.exists =>
               vm.CPUs = clamp(last.req.CPUs, host.minCPU, host.maxCPU))
        /\ (last.req.Memory # 0 /\ last.pre.mem.exists =>
               vm.Memory =
                   clamp(last.req.Memory, host.minMemory, host.maxMemory))

----------------------------------------------------------------------------
(* SpecLife: one VM object, started and stopped by its owner, with the     *)
(* goroutines its Stop calls spawn.                                        *)

LifeEnvs ==
    {Env(f, {}, [i \in 1..MaxIdLen |-> 6 + i]) :
        f \in {"none", "shared", "instantiate", "start"}}

InitLife ==
    \E install \in BOOLEAN, sd \in CallerShares :
        InitWith(TheHost, DirWith(0, NoFile),
                 [ZeroVM EXCEPT !.HostDataDir = DataDir,
                                !.Install = install,
                                !.SharedDirectories = sd])

NextLife ==
    \/ \E e \in LifeEnvs : StartObject(e)
    \/ \E c \in BOOLEAN : Stop(c)
    \/ Cancel
    \/ \E t \in DOMAIN tasks, ok \in BOOLEAN, err \in BOOLEAN :
           TaskRequestStop(t, ok, err)
    \/ \E t \in DOMAIN tasks : TaskStop(t)
    \/ \E t \in DOMAIN tasks : TaskClose(t)
    \/ SelectDone
    \/ SelectRecv

SpecLife == InitLife /\ [][NextLife]_vars

----------------------------------------------------------------------------
(* Claims about the life of a VM object, checked under SpecLife *)

\* C1 (as claimed): a Stop called on a running VM with a context that is
\* already cancelled returns the context's error, whatever the goroutine
\* has done by the time of the select.
C1_CancelledStopReturnsCtxErr ==
    (/\ caller.pc = "idle" /\ caller.spawned
     /\ caller.pre /\ caller.phase = "running") =>
        caller.ret = "ctx.Err"

\* C2 (as claimed): the engine handle is non-nil exactly between a
\* successful Start and the next Stop: nil before any Start, nil after a
\* Start that returned an error, nil after a Stop has completed.
C2_HandleTracksRunning ==
    /\ hist.phase = "running" => vm.vzvm # NULL
    /\ hist.phase \in {"unconfigured", "failed", "stopped"} =>
           vm.vzvm = NULL

\* C3 (as claimed): a Stop called on a VM that an earlier Stop has stopped
\* returns nil and asks the engine for nothing: no goroutine is spawned
\* that calls RequestStop or Stop.
C3_StopOnStoppedIsNoOp ==
    /\ (caller.phase = "stopped" /\ caller.pc = "idle") =>
           (caller.ret = "nil" /\ ~caller.spawned)
    /\ \A t \in DOMAIN tasks :
           tasks[t].phase = "stopped" => tasks[t].pc = "RequestStop"

\* C4 (as claimed): in install mode, once attachSharedDirs has run, the
\* directories handed to the engine are the read-only bootstrap directory,
\* then the writable boot directory, then the caller's entries in their
\* order, on the first Start and on every later one.
C4_ImplicitSharesFirstOnce ==
    (vm.Install /\ last.valid /\ Ran(last, "configureLinuxPlatform")) =>
        vm.config.shares =
            <<[Path |-> bootstrapDir([vm |-> vm]), ReadOnly |-> TRUE],
              [Path |-> Join(last.dir, "boot"), ReadOnly |-> FALSE]>>
            \o hist.shares

\* the Stop the caller last returned from was called on a running VM and
\* its context was never cancelled
LiveStopReturned ==
    /\ caller.pc = "idle" /\ caller.spawned
    /\ caller.phase = "running" /\ caller.ctx = "live"

\* C12: when such a Stop returns and RequestStop was rejected or returned
\* an error, the goroutine has called the forced Stop and Stop returns the
\* error of the rejection; when RequestStop was accepted, Stop returns nil
\* and the goroutine has forced nothing.
C12_RejectedStopForced ==
    LiveStopReturned =>
        IF tasks[caller.ch].msg # NULL
        THEN /\ caller.ret = tasks[caller.ch].msg
             /\ caller.ret \in {"could not shutdown gracefully",
                                "invalid machine state for stopping"}
             /\ tasks[caller.ch].forced
        ELSE /\ caller.ret = "nil"
             /\ tasks[caller.ch].closed
             /\ ~tasks[caller.ch].forced

C12_Witness ==
    /\ LiveStopReturned
    /\ caller.ret = "could not shutdown gracefully"
    /\ tasks[caller.ch].forced
    /\ engine.forcedStops = 1

\* SpecStopFair: the caller of Stop is scheduled, so a select whose
\* context case is ready does not wait for ever; nothing is assumed of the
\* engine, whose RequestStop and Stop may never return.
SpecStopFair == InitLife /\ [][NextLife]_vars /\ WF_vars(SelectDone)

\* C13: once the context of a Stop that waits in its select is cancelled,
\* the Stop returns, whether or not the goroutine ever gets an answer from
\* the engine.
C13_CancelledStopReturns ==
    (caller.pc = "select" /\ caller.ctx = "cancelled") ~> (caller.pc = "idle")

C13_Witness ==
    /\ caller.pc = "idle" /\ caller.spawned
    /\ caller.ret = "ctx.Err"
    /\ tasks[caller.ch].pc = "RequestStop"

\* C14: every step taken on a VM object whose Start was never called is
\* a Stop that returns nil at once, spawns no goroutine, asks the engine
\* for nothing and changes neither the VM's fields nor the data directory.
C14_StopBeforeStartNoOp ==
    [][(hist.starts = 0 /\ hist'.starts = 0) =>
          /\ caller'.pc = "idle" /\ caller'.ret = "nil" /\ ~caller'.spawned
          /\ tasks' = tasks /\ engine' = engine
          /\ vm' = vm /\ fs' = fs /\ ntemp' = ntemp]_vars

C14_Witness ==
    /\ hist.starts = 0 /\ hist.stops > 1
    /\ caller.pc = "idle" /\ caller.pre /\ caller.ret = "nil"
    /\ tasks = << >> /\ engine = NoEngine /\ vm.vzvm = NULL

\* SpecTaskFair: a goroutine that is about to call the forced Stop is
\* scheduled.
SpecTaskFair ==
    /\ InitLife /\ [][NextLife]_vars
    /\ WF_vars(\E t \in DOMAIN tasks : TaskStop(t))

\* the Stop that spawned goroutine t has returned the context's error and
\* RequestStop has answered t with a rejection or an error
LeakedRejected(t) ==
    /\ t \in DOMAIN tasks /\ tasks[t].pc = "Stop"
    /\ caller.pc = "idle" /\ caller.ch = t /\ caller.ret = "ctx.Err"

\* goroutine t has called vzvm.Stop()
Forced(t) == t \in DOMAIN tasks /\ tasks[t].forced

\* C20 (as claimed): the goroutine of a Stop that returned on cancellation
\* still calls the engine's forced Stop when RequestStop is rejected or
\* fails.
C20_LeakedTaskForcesStop ==
    \A t \in 1..MaxCalls : LeakedRejected(t) ~> Forced(t)

\* SpecAllFair: the caller and every goroutine are scheduled whenever
\* they can take a step, and the engine has answered: a goroutine that can
\* call the forced Stop, close the channel or hand its error to a waiting
\* receiver does so.
SpecAllFair ==
    /\ InitLife /\ [][NextLife]_vars
    /\ WF_vars(\E t \in DOMAIN tasks : TaskStop(t))
    /\ WF_vars(\E t \in DOMAIN tasks : TaskClose(t))
    /\ WF_vars(SelectDone)
    /\ WF_vars(SelectRecv)

\* the engine calls of goroutine t have returned: it is about to send its
\* error or to close the channel
EngineReturned(t) ==
    t \in DOMAIN tasks /\ tasks[t].pc \in {"send", "close"}

\* goroutine t has returned
Terminated(t) == t \in DOMAIN tasks /\ tasks[t].pc = "done"

\* C21 (as claimed): a goroutine spawned by Stop returns once its engine
\* calls have returned, whichever case the select of its Stop took.
C21_TaskTerminates ==
    \A t \in 1..MaxCalls : EngineReturned(t) ~> Terminated(t)

----------------------------------------------------------------------------
(* SpecDisk: runs of the program against one data directory, each asking   *)
(* for a root disk size of its own.                                        *)

\* the disk size of level d, 0 for "unset"
DiskOf(d) == d * DefaultDisk

DiskReqs ==
    {[Request(<< >>, r) EXCEPT !.DiskSize = DiskOf(d)] :
        d \in 0..MaxLevel, r \in 0..MaxLevel}

DiskEnvs ==
    {Env(f, {}, [i \in 1..MaxIdLen |-> 6 + i]) :
        f \in {"none", "console", "truncate", "disks"}}

InitDisk ==
    \E d \in 0..MaxLevel :
        InitWith(TheHost,
                 [DirWith(0, NoFile) EXCEPT
                    !.disk = IF d = 0 THEN NoDisk
                             ELSE [exists |-> TRUE, size |-> DiskOf(d)]],
                 ZeroVM)

NextDisk ==
    \E r \in DiskReqs, e \in DiskEnvs : StartNew(TheHost, r, e)

SpecDisk == InitDisk /\ [][NextDisk]_vars

\* C11: a Start that finds the root disk image in the data directory
\* leaves the image and its size as they are, whatever DiskSize is asked
\* for; only the call that creates the image gives it a size.
C11_ExistingDiskKept ==
    [][fs[DataDir].disk.exists => fs'[DataDir].disk = fs[DataDir].disk]_vars

C11_Witness ==
    /\ last.valid /\ last.ret = NULL
    /\ fs[DataDir].disk.exists /\ fs[DataDir].disk.size # 0
    /\ vm.DiskSize # 0 /\ vm.DiskSize # fs[DataDir].disk.size

----------------------------------------------------------------------------
(* SpecIO: runs of the program against a data directory whose scalar files *)
(* are absent, empty, cut short or whole, with at most one failing file    *)
(* operation per run.                                                      *)

FileKinds == {"absent", "empty", "short", "whole"}

\* a scalar file of the given kind, text being its whole content
ScalarFile(kind, text) ==
    CASE kind = "absent" -> NoFile
      [] kind = "empty" -> File(<< >>)
      [] kind = "short" -> File(SubSeq(text, 1, Len(text) \div 2))
      [] kind = "whole" -> File(text)

CpuText == Fprintf("cpu", MaxLevel)
MemText == Fprintf("mem", MemOf(MaxLevel))
IdText == Fprintf("id", [i \in 1..MaxIdLen |-> 6 + i])

IOFails ==
    {{}} \cup {{<<"create", "log">>}} \cup
    {{<<op, name>>} : op \in {"open", "create", "write"},
                      name \in {"cpu", "mem", "id"}}

IOEnvs == {Env("none", f, [i \in 1..MaxIdLen |-> 16 + i]) : f \in IOFails}

IOReqs == {Request(<< >>, r) : r \in {0, MaxLevel}}

InitIO ==
    \E kc \in FileKinds, km \in FileKinds, ki \in FileKinds :
        InitWith(TheHost,
                 [EmptyDir EXCEPT !.init = TRUE,
                                  !.cpu = ScalarFile(kc, CpuText),
                                  !.mem = ScalarFile(km, MemText),
                                  !.id = ScalarFile(ki, IdText)],
                 ZeroVM)

NextIO ==
    \E r \in IOReqs, e \in IOEnvs : StartNew(TheHost, r, e)

SpecIO == InitIO /\ [][NextIO]_vars

\* a read or write of the scalar file name failed during the Start
ScalarIOFailed(l, name) ==
    \E i \in 1..Len(l.ioErrs) : l.ioErrs[i][2] = name

\* C15 (as claimed): a Start during which a read or write of the cpu, mem
\* or id scalar failed returns an error and has not started the engine.
C15_ScalarIOFatal ==
    (/\ last.valid
     /\ \E name \in {"cpu", "mem", "id"} : ScalarIOFailed(last, name)) =>
        /\ last.ret # NULL
        /\ vm.vzvm = NULL
        /\ engine.state # "running"

\* the file is absent, empty, or a proper prefix of text
Unset(f, text) ==
    \/ ~f.exists
    \/ \E n \in 0..(Len(text) - 1) : f.data = SubSeq(text, 1, n)

\* C16 (as claimed): a scalar file that is absent, empty or cut short
\* loads as "unset" without an error: a Start that asks for nothing ends
\* with the clamped default (a newly generated identifier) and does not
\* fail.
C16_UnsetFilesTolerated ==
    (last.valid /\ last.ioErrs = << >>) =>
        /\ last.ret = NULL
        /\ (last.req.CPUs = 0 /\ Unset(last.pre.cpu, CpuText) =>
               vm.CPUs = clamp(DefaultCPUs, host.minCPU, host.maxCPU))
        /\ (last.req.Memory = 0 /\ Unset(last.pre.mem, MemText) =>
               vm.Memory =
                   clamp(DefaultMemory, host.minMemory, host.maxMemory))
        /\ (last.req.ID = << >> /\ Unset(last.pre.id, IdText) =>
               last.generated /\ vm.ID = last.newID)

----------------------------------------------------------------------------
(* SpecTemp: one VM object built without a host data directory, started    *)
(* and stopped by its owner.                                               *)

InitTemp ==
    \E install \in BOOLEAN, sd \in CallerShares :
        InitWith(TheHost, DirWith(0, NoFile),
                 [ZeroVM EXCEPT !.Install = install,
                                !.SharedDirectories = sd])

SpecTemp == InitTemp /\ [][NextLife]_vars

\* C17 (as claimed): once a Stop has completed on a VM that uses a
\* temporary data directory, no temporary directory of the VM exists.
C17_TempDirDeleted ==
    hist.phase = "stopped" =>
        \A n \in 1..ntemp : TempDir(n) \notin DOMAIN fs

\* C19 (as claimed): once a Start has set up its directory and logger,
\* the root fileBundle recorded equals the root dataFilePath uses, and the
\* VM has created at most one temporary directory.
C19_SingleBundleRoot ==
    (last.valid /\ Ran(last, "initLogger")) =>
        /\ vm.files.path = vm.HostDataDir
        /\ ntemp <= 1

----------------------------------------------------------------------------
(* SpecSteps: runs of the program in which the engine or the operating     *)
(* system may answer any one step of Start with an error.                  *)

StepFailures ==
    {"none", "loader", "config", "console", "truncate", "disks", "network",
     "entropy", "shared", "identifier", "platform", "validate", "invalid",
     "instantiate", "start"}

\* one failing step per run, or a failing os.MkdirTemp
StepEnvs ==
    {Env(f, {}, [i \in 1..MaxIdLen |-> 6 + i]) : f \in StepFailures} \cup
    {[Env("none", {}, [i \in 1..MaxIdLen |-> 6 + i]) EXCEPT
        !.mkdirTemp = FALSE]}

StepReqs ==
    {[Request(<< >>, 0) EXCEPT !.Install = install, !.HostDataDir = dir] :
        install \in BOOLEAN, dir \in {DataDir, EmptyPath}}

InitSteps == InitWith(TheHost, DirWith(0, NoFile), ZeroVM)

NextSteps ==
    \E r \in StepReqs, e \in StepEnvs :
        /\ r.HostDataDir = EmptyPath => ntemp < MaxTemps
        /\ StartNew(TheHost, r, e)

SpecSteps == InitSteps /\ [][NextSteps]_vars

\* the step of Start that returns the error err
FailedStep(err) ==
    CASE err = "create directory for virtual machine data" -> "fileBundle"
      [] err = "create boot loader" -> "linuxBootLoader"
      [] err = "create virtual machine configuration" ->
             "NewVirtualMachineConfiguration"
      [] err = "attach console" -> "attachConsole"
      [] err \in {"create root disk", "attach disks"} -> "attachDisks"
      [] err = "attach network" -> "attachNetwork"
      [] err = "attach entropy" -> "attachEntropy"
      [] err = "attach shared directories" -> "attachSharedDirs"
      [] err \in {"load machine identifier", "create machine identifier",
                  "save machine identifier",
                  "create platform configuration"} ->
             "configureLinuxPlatform"
      [] err = "invalid configuration" -> "Validate"
      [] err = "create virtual machine" -> "NewVirtualMachine"
      [] err = "engine start" -> "Start"

\* C18: the steps a Start has run are an initial part of the fixed order;
\* Start returns nil exactly when all of them ran, and otherwise the step
\* that failed is the last one run; an engine instance exists only when
\* the configuration was built, every attachment was made and Validate
\* passed, and it was started only after it was instantiated.
C18_StepsInOrder ==
    last.valid =>
        /\ last.steps = SubSeq(StartSteps, 1, Len(last.steps))
        /\ last.steps # << >>
        /\ last.ret = NULL <=>
               (last.steps = StartSteps /\ engine.state = "running")
        /\ last.ret # NULL =>
               last.steps[Len(last.steps)] = FailedStep(last.ret)
        /\ vm.vzvm # NULL =>
               /\ Ran(last, "Validate")
               /\ last.ret \in {NULL, "engine start"}
               /\ vm.config.set /\ vm.config.disks # << >>
               /\ vm.config.platform # << >>
               /\ vm.Logger # NULL /\ vm.OS # "" /\ vm.CPUs # 0
        /\ engine.state # "none" => vm.vzvm # NULL
        /\ ~Ran(last, "attachDisks") => vm.config.disks = << >>
        /\ ~Ran(last, "configureLinuxPlatform") =>
               (vm.config.platform = << >> /\ ~last.generated)

C18_Witness ==
    /\ last.valid /\ last.ret = "attach entropy"
    /\ Len(last.steps) = 11
    /\ vm.config.disks # << >> /\ vm.config.shares = << >>
    /\ vm.config.platform = << >> /\ vm.vzvm = NULL

====
